---- MODULE Spec2Model ----
(***************************************************************************)
(* Hashiwokakero: the board (src/board.py) and the CSP solver              *)
(* (src/hashi_solver.py) as a state machine.                               *)
(*                                                                         *)
(* Coordinates are 0-based (r,c) as in the code; the grid is a sequence of *)
(* rows of digits, so the cell (r,c) is grid[r+1][c+1].  Edge indices are  *)
(* 1-based (index i here is index i-1 in the code); their order is kept.   *)
(* A text line is a sequence of one-character strings.                     *)
(***************************************************************************)
EXTENDS Integers, Sequences, FiniteSets, TLC

VARIABLES lines, load,
          grid, islands, is_island, visible_neighbors, edges, incident,
          bridges, occupied_segments, msg,
          pc, use_mrv, stack, ret, result, solve_entry

vars == <<lines, load,
          grid, islands, is_island, visible_neighbors, edges, incident,
          bridges, occupied_segments, msg,
          pc, use_mrv, stack, ret, result, solve_entry>>

\* fixed by the construction of the Board
topology == <<lines, load,
              grid, islands, is_island, visible_neighbors, edges, incident>>

(***************************************************************************)
(* Bounds and inputs                                                       *)
(***************************************************************************)
\* the multiplicities a command may ask for are 0..MaxK (1 and 2 are legal)
MaxK == 3
\* the generated 2x2 boards use the digits 0..MaxDigit
MaxDigit == 2
\* the input texts: length of the header line, number and width of the rows
MaxHeaderLen == 4
MaxRows == 1
MaxCols == 2

None == <<>>
H == "H"
V == "V"
\* the orientation of a pair that shares neither row nor column
NoDir == "None"

\* boards with a corridor through a free cell, a corner, a chain, a cycle
PlusBoard == << <<0,1,0>>, <<1,0,1>>, <<0,1,0>> >>
CrossBoard == << <<2,2,0>>, <<2,0,1>>, <<0,1,0>> >>
PairBoard == << <<1,1>> >>
ChainBoard == << <<1,0,2,1>> >>
TwoPairs == << <<1,1>>, <<1,1>> >>
LongBoard == << <<2,0,3>>, <<0,0,0>>, <<1,0,2>> >>
OverBoard == << <<5,1>> >>
LoneBoard == << <<0,0>>, <<0,3>> >>
SquareBoard == << <<2,0,2>>, <<0,0,0>>, <<2,0,2>> >>
CornerBoard == << <<3,0,2>>, <<0,0,0>>, <<1,0,0>> >>
TeeBoard == << <<1,3,1>>, <<0,1,0>> >>
EmptyGrid == << <<0,0,0>> >>
Catalog == {PlusBoard, CrossBoard, PairBoard, ChainBoard, TwoPairs,
            LongBoard, OverBoard, LoneBoard, SquareBoard, CornerBoard,
            TeeBoard, EmptyGrid}
SmallGrids == { << <<w,x>>, <<y,z>> >> : w \in 0..MaxDigit, x \in 0..MaxDigit,
                                         y \in 0..MaxDigit, z \in 0..MaxDigit }
Boards == Catalog \cup SmallGrids

(***************************************************************************)
(* Loading: the text of a board and its validation                         *)
(***************************************************************************)
Range(s) == { s[i] : i \in DOMAIN s }

\* code points of the characters that occur in the inputs
Code ==
  ("," :> 44 @@ "-" :> 45 @@ "0" :> 48 @@ "1" :> 49 @@ "2" :> 50 @@ "3" :> 51
   @@ "4" :> 52 @@ "5" :> 53 @@ "6" :> 54 @@ "7" :> 55 @@ "8" :> 56
   @@ "9" :> 57)
IsDigit(ch) == Code[ch] >= 48 /\ Code[ch] <= 57
DigitChar(n) == CHOOSE ch \in DOMAIN Code : Code[ch] = 48 + n

\* str.split(",")
RECURSIVE Split(_)
Split(s) ==
  IF "," \notin Range(s) THEN <<s>>
  ELSE LET i == CHOOSE j \in DOMAIN s :
                   s[j] = "," /\ \A m \in 1..(j - 1) : s[m] # ","
       IN <<SubSeq(s, 1, i - 1)>> \o Split(SubSeq(s, i + 1, Len(s)))

\* int(s) raises no exception: an optional minus sign and one digit or more
\* (of what int accepts besides, "+", blanks and "_" are not in the inputs)
IntOk(s) ==
  LET body == IF s # <<>> /\ Head(s) = "-" THEN Tail(s) ELSE s
  IN body # <<>> /\ \A i \in DOMAIN body : IsDigit(body[i])
RECURSIVE DigitsVal(_)
DigitsVal(s) ==
  IF s = <<>> THEN 0
  ELSE 10 * DigitsVal(SubSeq(s, 1, Len(s) - 1)) + (Code[s[Len(s)]] - 48)
IntVal(s) == IF Head(s) = "-" THEN 0 - DigitsVal(Tail(s)) ELSE DigitsVal(s)

NotLoaded == [ok |-> FALSE, err |-> "none", n_rows |-> 0, n_cols |-> 0,
              grid |-> <<>>]
\* raise ValueError(...): no Board is constructed
LoadFail(e) == [NotLoaded EXCEPT !.err = e]

\* the first row that the loop over lines[1:] rejects, 0 if none
FirstBadRow(rows, nc) ==
  LET bad == { i \in DOMAIN rows :
                 \/ Len(rows[i]) # nc
                 \/ \E j \in DOMAIN rows[i] :
                       Code[rows[i][j]] < Code["0"] \/ Code[rows[i][j]] > Code["8"] }
  IN IF bad = {} THEN 0 ELSE CHOOSE i \in bad : \A j \in bad : i <= j

\* parse_from_lines that accepts every character
parse_from_lines_AnyChar(ls) ==
  IF ls = <<>> THEN LoadFail("EmptyFile")
  ELSE IF "," \notin Range(ls[1]) THEN LoadFail("HeaderNoComma")
  ELSE LET parts == Split(ls[1])
       IN IF Len(parts) # 2 \/ \E i \in DOMAIN parts : ~IntOk(parts[i])
          THEN LoadFail("HeaderUnreadable")
          ELSE LET nr == IntVal(parts[1])
                   nc == IntVal(parts[2])
                   rows == Tail(ls)
               IN IF Len(rows) # nr THEN LoadFail("RowCount")
                  ELSE IF \E i \in DOMAIN rows : Len(rows[i]) # nc
                  THEN LoadFail("RowLength")
                  ELSE [ok |-> TRUE, err |-> "OK", n_rows |-> nr,
                        n_cols |-> nc, grid |-> rows]

parse_from_lines(ls) ==
  IF ls = <<>> THEN LoadFail("EmptyFile")
  ELSE IF "," \notin Range(ls[1]) THEN LoadFail("HeaderNoComma")
  ELSE LET parts == Split(ls[1])
       IN IF Len(parts) # 2 \/ \E i \in DOMAIN parts : ~IntOk(parts[i])
          THEN LoadFail("HeaderUnreadable")
          ELSE LET nr == IntVal(parts[1])
                   nc == IntVal(parts[2])
                   rows == Tail(ls)
                   bad == FirstBadRow(rows, nc)
               IN IF Len(rows) # nr THEN LoadFail("RowCount")
                  ELSE IF bad # 0
                  THEN (IF Len(rows[bad]) # nc THEN LoadFail("RowLength")
                        ELSE LoadFail("InvalidChar"))
                  ELSE [ok |-> TRUE, err |-> "OK", n_rows |-> nr,
                        n_cols |-> nc, grid |-> rows]

\* int(self.grid[r][c]) for every cell
IntGrid(rows) ==
  [r \in DOMAIN rows |-> [c \in DOMAIN rows[r] |-> Code[rows[r][c]] - 48]]

\* the file of a board: header "rows,cols" and one line per row
TextOf(g) ==
  << <<DigitChar(Len(g)), ",", DigitChar(Len(g[1]))>> >>
  \o [r \in DOMAIN g |-> [c \in DOMAIN g[r] |-> DigitChar(g[r][c])]]

\* the texts given to the loader: every header line over HeaderChars with
\* rows of each shape, and every header of a board within the bounds with
\* each grid of its shape over RowChars; the loader of the program drops
\* blank lines, so no line is empty
HeaderChars == {"0", "1", "2", ",", "-"}
RowChars == {"-", "0", "8", "9"}
SeqsOf(S, lo, hi) == UNION { [1..n -> S] : n \in lo..hi }
Headers == SeqsOf(HeaderChars, 1, MaxHeaderLen)
BoardHeaders ==
  { h \in Headers :
      /\ "," \in Range(h)
      /\ Len(Split(h)) = 2
      /\ \A i \in 1..2 : IntOk(Split(h)[i])
      /\ IntVal(Split(h)[1]) \in 0..MaxRows
      /\ IntVal(Split(h)[2]) \in 1..MaxCols }
ShapeRows == SeqsOf(SeqsOf({"0"}, 1, MaxCols), 0, MaxRows)
GridsOf(h) ==
  [1..IntVal(Split(h)[1]) -> [1..IntVal(Split(h)[2]) -> RowChars]]
Inputs ==
  {<<>>} \cup { <<h>> \o rows : h \in Headers, rows \in ShapeRows }
         \cup UNION { { <<h>> \o rows : rows \in GridsOf(h) } : h \in BoardHeaders }

(***************************************************************************)
(* Board: construction                                                     *)
(***************************************************************************)
\* the numbers of the header, as Board.__init__ receives them
n_rows == load.n_rows
n_cols == load.n_cols

InGrid(p) == p[1] >= 0 /\ p[1] < n_rows /\ p[2] >= 0 /\ p[2] < n_cols
Cells == { <<r, c>> : r \in 0..(n_rows - 1), c \in 0..(n_cols - 1) }

IsIslandTriple(t) == t[3] # 0
\* list of (r, c, value) in row-major order
BuildIslands ==
  SelectSeq([i \in 1..(n_rows * n_cols) |->
               << (i - 1) \div n_cols, (i - 1) % n_cols,
                  grid[((i - 1) \div n_cols) + 1][((i - 1) % n_cols) + 1] >>],
            IsIslandTriple)

Pos(t) == <<t[1], t[2]>>
BuildIsIsland == [p \in { Pos(t) : t \in Range(islands) } |-> grid[p[1] + 1][p[2] + 1]]

\* a scan that runs on to the last island before the border
RECURSIVE Scan_Far(_, _)
Scan_Far(p, d) ==
  LET q == <<p[1] + d[1], p[2] + d[2]>>
  IN IF ~InGrid(q) THEN None
     ELSE IF q \in DOMAIN is_island /\ Scan_Far(q, d) = None THEN q
     ELSE Scan_Far(q, d)

\* scan from p (excluded) in steps of d until an island or the border
RECURSIVE Scan(_, _)
Scan(p, d) ==
  LET q == <<p[1] + d[1], p[2] + d[2]>>
  IN IF ~InGrid(q) THEN None
     ELSE IF q \in DOMAIN is_island THEN q
     ELSE Scan(q, d)

_precompute_visible_neighbors ==
  [p \in DOMAIN is_island |->
     [U |-> Scan(p, <<-1, 0>>), D |-> Scan(p, <<1, 0>>),
      L |-> Scan(p, <<0, -1>>), R |-> Scan(p, <<0, 1>>)]]

(***************************************************************************)
(* Board: helpers.  B is the mutable part of a Board,                      *)
(* [bridges |-> ledger, occupied_segments |-> set of segments].            *)
(***************************************************************************)
Board == [bridges |-> bridges, occupied_segments |-> occupied_segments]
EmptyBoard == [bridges |-> <<>>, occupied_segments |-> {}]

_pair_key(a, b) == {a, b}

_orient(a, b) ==
  IF a[1] = b[1] THEN H ELSE IF a[2] = b[2] THEN V ELSE NoDir

MinOf(x, y) == IF x <= y THEN x ELSE y
MaxOf(x, y) == IF x >= y THEN x ELSE y

\* a path that stops one segment short of the far island
_path_between_Short(a, b) ==
  IF a[1] = b[1]
  THEN [i \in 1..(MaxOf(a[2], b[2]) - MinOf(a[2], b[2]) - 1) |->
          <<H, a[1], MinOf(a[2], b[2]) + i - 1>>]
  ELSE IF a[2] = b[2]
  THEN [i \in 1..(MaxOf(a[1], b[1]) - MinOf(a[1], b[1]) - 1) |->
          <<V, MinOf(a[1], b[1]) + i - 1, a[2]>>]
  ELSE <<>>

_path_between(a, b) ==
  IF a[1] = b[1]
  THEN [i \in 1..(MaxOf(a[2], b[2]) - MinOf(a[2], b[2])) |->
          <<H, a[1], MinOf(a[2], b[2]) + i - 1>>]
  ELSE IF a[2] = b[2]
  THEN [i \in 1..(MaxOf(a[1], b[1]) - MinOf(a[1], b[1])) |->
          <<V, MinOf(a[1], b[1]) + i - 1, a[2]>>]
  ELSE <<>>

RECURSIVE SumK(_, _)
SumK(led, keys) ==
  IF keys = {} THEN 0
  ELSE LET key == CHOOSE x \in keys : TRUE
       IN led[key].k + SumK(led, keys \ {key})

degree(B, a) ==
  SumK(B.bridges, { key \in DOMAIN B.bridges : B.bridges[key].k # 0 /\ a \in key })

pending(B, a) == is_island[a] - degree(B, a)

(***************************************************************************)
(* Board: validation and mutation                                          *)
(***************************************************************************)
\* visibility reduced to alignment: islands in between are not looked at
_visible_aligned_AlignedOnly(a, b) == _orient(a, b) # NoDir

_visible_aligned(a, b) ==
  LET ori == _orient(a, b)
      vis == visible_neighbors[a]
  IN IF ori = NoDir THEN FALSE
     ELSE IF ori = H
     THEN (IF b[2] > a[2] THEN vis.R = b ELSE vis.L = b)
     ELSE (IF b[1] > a[1] THEN vis.D = b ELSE vis.U = b)

\* a crossing test that never fires
_crossing_if_add_Never(B, a, b) == FALSE

_crossing_if_add(B, a, b) ==
  \E seg \in Range(_path_between(a, b)) :
     /\ seg \in B.occupied_segments
     /\ IF seg[1] = H
        THEN <<V, seg[2], seg[3]>> \in B.occupied_segments
        ELSE <<H, seg[2], seg[3]>> \in B.occupied_segments

Ok == [ok |-> TRUE, err |-> "OK", at |-> None]
Err(e) == [ok |-> FALSE, err |-> e, at |-> None]
ErrAt(e, p) == [ok |-> FALSE, err |-> e, at |-> p]

\* a lookup that finds the entry from its first endpoint only
Current_Ordered(B, a, b) ==
  IF _pair_key(a, b) \in DOMAIN B.bridges /\ a[1] <= b[1] /\ a[2] <= b[2]
  THEN B.bridges[_pair_key(a, b)]
  ELSE [k |-> 0, dir |-> _orient(a, b)]

Current(B, a, b) ==
  IF _pair_key(a, b) \in DOMAIN B.bridges
  THEN B.bridges[_pair_key(a, b)]
  ELSE [k |-> 0, dir |-> _orient(a, b)]

\* can_add_bridge without the capacity check of the second endpoint
can_add_bridge_NoCapB(B, a, b, k) ==
  IF a \notin DOMAIN is_island \/ b \notin DOMAIN is_island
  THEN Err("NotAnIsland")
  ELSE IF k \notin {1, 2} THEN Err("InvalidMultiplicity")
  ELSE IF ~_visible_aligned(a, b) THEN Err("NotVisible")
  ELSE IF Current(B, a, b).k + k > 2 THEN Err("MultiplicityExceeded")
  ELSE IF _crossing_if_add(B, a, b) THEN Err("Crossing")
  ELSE IF degree(B, a) + k > is_island[a] THEN ErrAt("CapacityExceeded", a)
  ELSE Ok

can_add_bridge(B, a, b, k) ==
  IF a \notin DOMAIN is_island \/ b \notin DOMAIN is_island
  THEN Err("NotAnIsland")
  ELSE IF k \notin {1, 2} THEN Err("InvalidMultiplicity")
  ELSE IF ~_visible_aligned(a, b) THEN Err("NotVisible")
  ELSE IF Current(B, a, b).k + k > 2 THEN Err("MultiplicityExceeded")
  ELSE IF _crossing_if_add(B, a, b) THEN Err("Crossing")
  ELSE IF degree(B, a) + k > is_island[a] THEN ErrAt("CapacityExceeded", a)
  ELSE IF degree(B, b) + k > is_island[b] THEN ErrAt("CapacityExceeded", b)
  ELSE Ok

\* a store that keeps the written entry only
Put_Alone(led, key, info) == [x \in {key} |-> info]

\* the ledger led with the entry of key set to info
Put(led, key, info) ==
  [x \in (DOMAIN led) \cup {key} |-> IF x = key THEN info ELSE led[x]]
\* the ledger led without the entry of key
\* a deletion that empties the ledger
Del_All(led, key) == [x \in {} |-> led[x]]

Del(led, key) == [x \in (DOMAIN led) \ {key} |-> led[x]]

\* add_bridge that occupies the corridor before it validates
add_bridge_Partial(B, a, b, k) ==
  LET res == can_add_bridge(B, a, b, k)
  IN IF ~res.ok
     THEN [res |-> res,
           board |-> [bridges |-> B.bridges,
                      occupied_segments |->
                         B.occupied_segments \cup Range(_path_between(a, b))]]
     ELSE [res |-> Ok,
           board |->
             [bridges |-> Put(B.bridges, _pair_key(a, b),
                              [k |-> Current(B, a, b).k + k, dir |-> _orient(a, b)]),
              occupied_segments |->
                 B.occupied_segments \cup Range(_path_between(a, b))]]

add_bridge(B, a, b, k) ==
  LET res == can_add_bridge(B, a, b, k)
  IN IF ~res.ok THEN [res |-> res, board |-> B]
     ELSE [res |-> Ok,
           board |->
             [bridges |-> Put(B.bridges, _pair_key(a, b),
                              [k |-> Current(B, a, b).k + k, dir |-> _orient(a, b)]),
              occupied_segments |->
                 B.occupied_segments \cup Range(_path_between(a, b))]]

\* can_remove_bridge that refuses to take the last links of a pair
can_remove_bridge_OffByOne(B, a, b, k) ==
  IF a \notin DOMAIN is_island \/ b \notin DOMAIN is_island
  THEN Err("NotAnIsland")
  ELSE IF k \notin {1, 2} THEN Err("InvalidMultiplicity")
  ELSE IF _pair_key(a, b) \notin DOMAIN B.bridges
          \/ B.bridges[_pair_key(a, b)].k <= k
  THEN Err("InsufficientBridgesToRemove")
  ELSE Ok

can_remove_bridge(B, a, b, k) ==
  IF a \notin DOMAIN is_island \/ b \notin DOMAIN is_island
  THEN Err("NotAnIsland")
  ELSE IF k \notin {1, 2} THEN Err("InvalidMultiplicity")
  ELSE IF _pair_key(a, b) \notin DOMAIN B.bridges
          \/ B.bridges[_pair_key(a, b)].k < k
  THEN Err("InsufficientBridgesToRemove")
  ELSE Ok

\* remove_bridge that leaves the corridor occupied when the entry goes
remove_bridge_KeepSegs(B, a, b, k) ==
  LET res == can_remove_bridge(B, a, b, k)
      key == _pair_key(a, b)
  IN IF ~res.ok THEN [res |-> res, board |-> B]
     ELSE IF B.bridges[key].k - k = 0
     THEN [res |-> Ok,
           board |-> [bridges |-> Del(B.bridges, key),
                      occupied_segments |-> B.occupied_segments]]
     ELSE [res |-> Ok,
           board |-> [bridges |-> Put(B.bridges, key,
                                      [k |-> B.bridges[key].k - k,
                                       dir |-> B.bridges[key].dir]),
                      occupied_segments |-> B.occupied_segments]]

remove_bridge(B, a, b, k) ==
  LET res == can_remove_bridge(B, a, b, k)
      key == _pair_key(a, b)
  IN IF ~res.ok THEN [res |-> res, board |-> B]
     ELSE IF B.bridges[key].k - k = 0
     THEN [res |-> Ok,
           board |-> [bridges |-> Del(B.bridges, key),
                      occupied_segments |->
                         B.occupied_segments \ Range(_path_between(a, b))]]
     ELSE [res |-> Ok,
           board |-> [bridges |-> Put(B.bridges, key,
                                      [k |-> B.bridges[key].k - k,
                                       dir |-> B.bridges[key].dir]),
                      occupied_segments |-> B.occupied_segments]]

(***************************************************************************)
(* Board: global checks                                                    *)
(***************************************************************************)
counts_ok(B) == \A i \in DOMAIN islands : degree(B, Pos(islands[i])) = islands[i][3]

adj(B) ==
  [p \in DOMAIN is_island |->
     { q \in DOMAIN is_island :
          {p, q} \in DOMAIN B.bridges /\ p # q /\ B.bridges[{p, q}].k > 0 }]

\* breadth-first traversal: seen so far, and the queue as a frontier set
RECURSIVE Bfs(_, _, _)
Bfs(B, seen, frontier) ==
  IF frontier = {} THEN seen
  ELSE LET next == (UNION { adj(B)[u] : u \in frontier }) \ seen
       IN Bfs(B, seen \cup next, next)

\* a traversal that stops at the neighbours of the start island
is_connected_OneStep(B) ==
  IF Len(islands) = 0 THEN TRUE
  ELSE LET start == Pos(islands[1])
       IN Cardinality({start} \cup adj(B)[start]) = Len(islands)

is_connected(B) ==
  IF Len(islands) = 0 THEN TRUE
  ELSE LET start == Pos(islands[1])
       IN Cardinality(Bfs(B, {start}, {start})) = Len(islands)

\* full_check without the connectivity test
full_check_CountsOnly(B) ==
  IF ~counts_ok(B) THEN Err("CountsNotSatisfied") ELSE Ok

full_check(B) ==
  IF ~counts_ok(B) THEN Err("CountsNotSatisfied")
  ELSE IF ~is_connected(B) THEN Err("NotConnected")
  ELSE Ok

(***************************************************************************)
(* Solver: variables of the CSP                                            *)
(***************************************************************************)
Dirs == <<"U", "D", "L", "R">>

\* the m-th (island, direction) visit of the two nested loops: the island
\* and what it sees in that direction
Visit(m) ==
  LET a == Pos(islands[((m - 1) \div 4) + 1])
  IN <<a, visible_neighbors[a][Dirs[((m - 1) % 4) + 1]]>>

\* the visit appends an edge: it sees an island, and no earlier visit saw
\* the same pair (key not in seen)
Appends(m) ==
  /\ Visit(m)[2] # None
  /\ \A j \in 1..(m - 1) :
        Visit(j)[2] = None \/ {Visit(j)[1], Visit(j)[2]} # {Visit(m)[1], Visit(m)[2]}

\* edges found after the first n (island, direction) visits, in visit order
EdgesUpTo(n) ==
  LET kept == SelectSeq([m \in 1..n |-> m], Appends)
  IN [i \in DOMAIN kept |-> Visit(kept[i])]

\* an index that lists an edge only under its first endpoint
IncidentOf_FirstEndpoint(es) ==
  [p \in DOMAIN is_island |->
     SelectSeq([i \in 1..Len(es) |-> i], LAMBDA i : es[i][1] = p)]

\* island -> indices of the edges that touch it, ascending
IncidentOf(es) ==
  [p \in DOMAIN is_island |->
     SelectSeq([i \in 1..Len(es) |-> i],
               LAMBDA i : es[i][1] = p \/ es[i][2] = p)]

\* a function of the fixed topology only; solve_csp's edges and incident
\* are kept from the construction of the board on
_build_edges ==
  [edges |-> EdgesUpTo(4 * Len(islands)),
   incident |-> IncidentOf(EdgesUpTo(4 * Len(islands)))]

(***************************************************************************)
(* Solver: forward checking                                                *)
(***************************************************************************)
MinSet(S) == CHOOSE x \in S : \A y \in S : x <= y
MaxSet(S) == CHOOSE x \in S : \A y \in S : x >= y

\* a sum of minima that takes every minimum for 1
SumMin_One(doms, es, n) == n

RECURSIVE SumMin(_, _, _)
SumMin(doms, es, n) ==
  IF n = 0 THEN 0 ELSE SumMin(doms, es, n - 1) + MinSet(doms[es[n]])
\* a sum of maxima that takes every domain to reach 2
SumMax_AllTwo(doms, es, n) == 2 * n

RECURSIVE SumMax(_, _, _)
SumMax(doms, es, n) ==
  IF n = 0 THEN 0 ELSE SumMax(doms, es, n - 1) + MaxSet(doms[es[n]])

\* a forcing that always pins to 0
Force_AlwaysZero(doms, es, v) ==
  [e \in DOMAIN doms |-> IF e \in Range(es) THEN {0} ELSE doms[e]]

Force(doms, es, v) ==
  [e \in DOMAIN doms |-> IF e \in Range(es) THEN {v} ELSE doms[e]]
Narrows(doms, es, v) == \E e \in Range(es) : doms[e] # {v}

\* the island step without the test left > maxs
PropIsland_NoMaxCheck(B, doms, unassigned, t) ==
  LET pos == Pos(t)
      left == t[3] - degree(B, pos)
      u_edges == SelectSeq(incident[pos], LAMBDA e : e \in unassigned)
      d == Len(u_edges)
      mins == SumMin(doms, u_edges, d)
      same == [ok |-> TRUE, doms |-> doms, changed |-> FALSE]
      fail == [ok |-> FALSE, doms |-> doms, changed |-> FALSE]
  IN IF left < 0 THEN fail
     ELSE IF d = 0 THEN (IF left # 0 THEN fail ELSE same)
     ELSE IF \E i \in 1..d : doms[u_edges[i]] = {} THEN fail
     ELSE IF left < mins THEN fail
     ELSE IF left = 0
     THEN [ok |-> TRUE, doms |-> Force(doms, u_edges, 0),
           changed |-> Narrows(doms, u_edges, 0)]
     ELSE IF left = 2 * d
     THEN [ok |-> TRUE, doms |-> Force(doms, u_edges, 2),
           changed |-> Narrows(doms, u_edges, 2)]
     ELSE IF left = 1 /\ d = 1
     THEN [ok |-> TRUE, doms |-> Force(doms, u_edges, 1),
           changed |-> Narrows(doms, u_edges, 1)]
     ELSE same

\* one island of the for loop: the domains after it, whether one changed,
\* and ok = FALSE where the code returns False
PropIsland(B, doms, unassigned, t) ==
  LET pos == Pos(t)
      left == t[3] - degree(B, pos)
      u_edges == SelectSeq(incident[pos], LAMBDA e : e \in unassigned)
      d == Len(u_edges)
      mins == SumMin(doms, u_edges, d)
      maxs == SumMax(doms, u_edges, d)
      same == [ok |-> TRUE, doms |-> doms, changed |-> FALSE]
      fail == [ok |-> FALSE, doms |-> doms, changed |-> FALSE]
  IN IF left < 0 THEN fail
     ELSE IF d = 0 THEN (IF left # 0 THEN fail ELSE same)
     ELSE IF \E i \in 1..d : doms[u_edges[i]] = {} THEN fail
     ELSE IF left < mins \/ left > maxs THEN fail
     ELSE IF left = 0
     THEN [ok |-> TRUE, doms |-> Force(doms, u_edges, 0),
           changed |-> Narrows(doms, u_edges, 0)]
     ELSE IF left = 2 * d
     THEN [ok |-> TRUE, doms |-> Force(doms, u_edges, 2),
           changed |-> Narrows(doms, u_edges, 2)]
     ELSE IF left = 1 /\ d = 1
     THEN [ok |-> TRUE, doms |-> Force(doms, u_edges, 1),
           changed |-> Narrows(doms, u_edges, 1)]
     ELSE same

\* the for loop over the islands, from island i on
RECURSIVE PropPass(_, _, _, _, _)
PropPass(B, doms, unassigned, i, changed) ==
  IF i > Len(islands) THEN [ok |-> TRUE, doms |-> doms, changed |-> changed]
  ELSE LET one == PropIsland(B, doms, unassigned, islands[i])
       IN IF ~one.ok THEN one
          ELSE PropPass(B, one.doms, unassigned, i + 1, changed \/ one.changed)

\* a propagation that stops after the first pass over the islands
propagate_OnePass(B, doms, unassigned) ==
  LET pass == PropPass(B, doms, unassigned, 1, FALSE)
  IN [ok |-> pass.ok, doms |-> pass.doms]

\* the while loop: passes until no domain changes
RECURSIVE propagate(_, _, _)
propagate(B, doms, unassigned) ==
  LET pass == PropPass(B, doms, unassigned, 1, FALSE)
  IN IF ~pass.ok THEN [ok |-> FALSE, doms |-> pass.doms]
     ELSE IF pass.changed THEN propagate(B, pass.doms, unassigned)
     ELSE [ok |-> TRUE, doms |-> pass.doms]

(***************************************************************************)
(* Solver: backtracking                                                    *)
(***************************************************************************)
\* a selection by the largest domain
MrvVar_Largest(doms, unassigned) ==
  MinSet({ i \in unassigned :
             \A j \in unassigned : Cardinality(doms[i]) >= Cardinality(doms[j]) })

\* min(unassigned, key = size of domain): the first minimum in the set's
\* iteration order, which for these small integers is ascending
MrvVar(doms, unassigned) ==
  MinSet({ i \in unassigned :
             \A j \in unassigned : Cardinality(doms[i]) <= Cardinality(doms[j]) })
\* next(iter(unassigned))
FirstVar(unassigned) == MinSet(unassigned)

SelectVar(mrv, doms, unassigned) ==
  IF mrv THEN MrvVar(doms, unassigned) ELSE FirstVar(unassigned)

\* a value loop that never tries 0
SortedDesc_NoZero(S) ==
  IF 2 \in S THEN (IF 1 \in S THEN <<2, 1>> ELSE <<2>>)
  ELSE IF 1 \in S THEN <<1>> ELSE <<>>

\* sorted(domain, reverse = True)
RECURSIVE SortedDesc(_)
SortedDesc(S) ==
  IF S = {} THEN <<>> ELSE <<MaxSet(S)>> \o SortedDesc(S \ {MaxSet(S)})

\* a current multiplicity that is always read as 0
KCurrent_Zero(B, a, b) == 0

KCurrent(B, a, b) ==
  IF {a, b} \in DOMAIN B.bridges THEN B.bridges[{a, b}].k ELSE 0

\* an undo that forgets the remove_bridge
Undo_Skip(B, a, b, delta) == B

\* undo of the change a frame applied for its current candidate
Undo(B, a, b, delta) ==
  IF delta > 0 THEN remove_bridge(B, a, b, delta).board ELSE B

\* a loop body that keeps the added bridge when propagation fails
TryValue_NoUndo(B, doms, unassigned, var, val) ==
  LET a == edges[var][1]
      b == edges[var][2]
      k_current == KCurrent(B, a, b)
      delta == val - k_current
      added == IF delta > 0 THEN add_bridge(B, a, b, delta)
               ELSE [res |-> Ok, board |-> B]
      new_domains == [doms EXCEPT ![var] = {val}]
      new_unassigned == unassigned \ {var}
      prop == propagate(added.board, new_domains, new_unassigned)
      skip == [go |-> FALSE, board |-> B, delta |-> 0,
               doms |-> doms, unassigned |-> unassigned]
  IN IF val < k_current THEN skip
     ELSE IF ~added.res.ok THEN skip
     ELSE IF ~prop.ok THEN [skip EXCEPT !.board = added.board]
     ELSE [go |-> TRUE, board |-> added.board, delta |-> delta,
           doms |-> prop.doms, unassigned |-> new_unassigned]

\* one candidate val of the loop body, up to the recursive call:
\* go = TRUE where the code reaches backtrack(new_domains, new_unassigned)
TryValue(B, doms, unassigned, var, val) ==
  LET a == edges[var][1]
      b == edges[var][2]
      k_current == KCurrent(B, a, b)
      delta == val - k_current
      added == IF delta > 0 THEN add_bridge(B, a, b, delta)
               ELSE [res |-> Ok, board |-> B]
      new_domains == [doms EXCEPT ![var] = {val}]
      new_unassigned == unassigned \ {var}
      prop == propagate(added.board, new_domains, new_unassigned)
      skip == [go |-> FALSE, board |-> B, delta |-> 0,
               doms |-> doms, unassigned |-> unassigned]
  IN IF val < k_current THEN skip
     ELSE IF ~added.res.ok THEN skip
     ELSE IF ~prop.ok
     THEN [skip EXCEPT !.board = Undo(added.board, a, b, delta)]
     ELSE [go |-> TRUE, board |-> added.board, delta |-> delta,
           doms |-> prop.doms, unassigned |-> new_unassigned]

(***************************************************************************)
(* State machine                                                           *)
(***************************************************************************)
NoMsg == [ok |-> FALSE, err |-> "none", at |-> None]
NoRet == [set |-> FALSE, ok |-> FALSE, entry |-> EmptyBoard, adds |-> 0,
          leaf |-> {}]

\* a call of backtrack(doms, unassigned) entered with the board B
Frame(B, doms, unassigned) ==
  [st |-> "enter", doms |-> doms, unassigned |-> unassigned, var |-> 0,
   vals |-> <<>>, delta |-> 0, entry |-> B, adds |-> 0]

Top == stack[Len(stack)]
Pop == SubSeq(stack, 1, Len(stack) - 1)
SetTop(f) == [stack EXCEPT ![Len(stack)] = f]
\* the value a frame f returns; leaf is the unassigned set of the frame
\* whose return statement produced the value
Returned(ok, f, leaf) ==
  [set |-> TRUE, ok |-> ok, entry |-> f.entry, adds |-> f.adds, leaf |-> leaf]

\* the state after Board.parse_from_lines built the board of a text
Init ==
  /\ lines \in { TextOf(g) : g \in Boards }
  /\ load = parse_from_lines(lines)
  /\ grid = IntGrid(load.grid)
  /\ islands = BuildIslands
  /\ is_island = BuildIsIsland
  /\ visible_neighbors = _precompute_visible_neighbors
  /\ edges = _build_edges.edges
  /\ incident = _build_edges.incident
  /\ bridges = <<>>
  /\ occupied_segments = {}
  /\ msg = NoMsg
  /\ pc = "idle"
  /\ use_mrv = TRUE
  /\ stack = <<>>
  /\ ret = NoRet
  /\ result = FALSE
  /\ solve_entry = EmptyBoard

\* ADD a b k
AddBridge(a, b, k) ==
  /\ pc = "idle"
  /\ LET r == add_bridge(Board, a, b, k)
     IN /\ bridges' = r.board.bridges
        /\ occupied_segments' = r.board.occupied_segments
        /\ msg' = r.res
  /\ UNCHANGED <<topology, pc, use_mrv, stack, ret, result, solve_entry>>

\* a removal that keeps the entry of a pair whose last link went
RemoveBridge_StoreZero(a, b, k) ==
  /\ pc = "idle"
  /\ LET r == remove_bridge(Board, a, b, k)
     IN /\ bridges' = IF r.res.ok /\ {a, b} \notin DOMAIN r.board.bridges
                      THEN Put(r.board.bridges, {a, b},
                               [k |-> 0, dir |-> bridges[{a, b}].dir])
                      ELSE r.board.bridges
        /\ occupied_segments' = r.board.occupied_segments
        /\ msg' = r.res
  /\ UNCHANGED <<topology, pc, use_mrv, stack, ret, result, solve_entry>>

\* REM a b k
RemoveBridge(a, b, k) ==
  /\ pc = "idle"
  /\ LET r == remove_bridge(Board, a, b, k)
     IN /\ bridges' = r.board.bridges
        /\ occupied_segments' = r.board.occupied_segments
        /\ msg' = r.res
  /\ UNCHANGED <<topology, pc, use_mrv, stack, ret, result, solve_entry>>

\* solve_csp up to its call of backtrack
Solve(mrv) ==
  /\ pc = "idle"
  /\ LET domains == [i \in 1..Len(edges) |-> {0, 1, 2}]
         unassigned == 1..Len(edges)
         prop == propagate(Board, domains, unassigned)
     IN IF ~prop.ok
        THEN /\ pc' = "done"
             /\ result' = FALSE
             /\ stack' = <<>>
        ELSE /\ pc' = "solving"
             /\ result' = FALSE
             /\ stack' = <<Frame(Board, prop.doms, unassigned)>>
  /\ use_mrv' = mrv
  /\ solve_entry' = Board
  /\ msg' = NoMsg
  /\ ret' = NoRet
  /\ UNCHANGED <<topology, bridges, occupied_segments>>

\* a frame that tries the values of its edge in ascending order
BtEnter_Ascending ==
  /\ pc = "solving" /\ ~ret.set /\ stack # <<>> /\ Top.st = "enter"
  /\ IF Top.unassigned = {}
     THEN /\ ret' = Returned(full_check(Board).ok, Top, Top.unassigned)
          /\ stack' = Pop
     ELSE /\ LET var == SelectVar(use_mrv, Top.doms, Top.unassigned)
                 desc == SortedDesc(Top.doms[var])
             IN stack' = SetTop([Top EXCEPT
                                   !.st = "loop", !.var = var,
                                   !.vals = [i \in DOMAIN desc |->
                                               desc[Len(desc) + 1 - i]]])
          /\ ret' = ret
  /\ UNCHANGED <<topology, bridges, occupied_segments, msg, pc, use_mrv, result,
                 solve_entry>>

\* backtrack: the base case, or the choice of the edge and its values
BtEnter ==
  /\ pc = "solving" /\ ~ret.set /\ stack # <<>> /\ Top.st = "enter"
  /\ IF Top.unassigned = {}
     THEN /\ ret' = Returned(full_check(Board).ok, Top, Top.unassigned)
          /\ stack' = Pop
     ELSE /\ LET var == SelectVar(use_mrv, Top.doms, Top.unassigned)
             IN stack' = SetTop([Top EXCEPT !.st = "loop", !.var = var,
                                            !.vals = SortedDesc(Top.doms[var])])
          /\ ret' = ret
  /\ UNCHANGED <<topology, bridges, occupied_segments, msg, pc, use_mrv, result,
                 solve_entry>>

\* a loop that hands its own domains to the branch instead of a copy
BtTry_SharedDomains ==
  /\ pc = "solving" /\ ~ret.set /\ stack # <<>> /\ Top.st = "loop"
  /\ Top.vals # <<>>
  /\ LET t == TryValue(Board, Top.doms, Top.unassigned, Top.var, Head(Top.vals))
         rest == [Top EXCEPT !.vals = Tail(Top.vals),
                             !.doms = IF t.go THEN t.doms ELSE @]
     IN /\ bridges' = t.board.bridges
        /\ occupied_segments' = t.board.occupied_segments
        /\ IF t.go
           THEN stack' = Append(SetTop([rest EXCEPT !.st = "wait",
                                                    !.delta = t.delta,
                                                    !.adds = IF t.delta > 0
                                                             THEN @ + 1 ELSE @]),
                                Frame(t.board, t.doms, t.unassigned))
           ELSE stack' = SetTop(rest)
  /\ UNCHANGED <<topology, msg, pc, use_mrv, ret, result, solve_entry>>

\* backtrack: one iteration of the loop over the values
BtTry ==
  /\ pc = "solving" /\ ~ret.set /\ stack # <<>> /\ Top.st = "loop"
  /\ Top.vals # <<>>
  /\ LET t == TryValue(Board, Top.doms, Top.unassigned, Top.var, Head(Top.vals))
         rest == [Top EXCEPT !.vals = Tail(Top.vals)]
     IN /\ bridges' = t.board.bridges
        /\ occupied_segments' = t.board.occupied_segments
        /\ IF t.go
           THEN stack' = Append(SetTop([rest EXCEPT !.st = "wait",
                                                    !.delta = t.delta,
                                                    !.adds = IF t.delta > 0
                                                             THEN @ + 1 ELSE @]),
                                Frame(t.board, t.doms, t.unassigned))
           ELSE stack' = SetTop(rest)
  /\ UNCHANGED <<topology, msg, pc, use_mrv, ret, result, solve_entry>>

\* backtrack: no value led to a solution
BtExhausted ==
  /\ pc = "solving" /\ ~ret.set /\ stack # <<>> /\ Top.st = "loop"
  /\ Top.vals = <<>>
  /\ ret' = Returned(FALSE, Top, Top.unassigned)
  /\ stack' = Pop
  /\ UNCHANGED <<topology, bridges, occupied_segments, msg, pc, use_mrv, result,
                 solve_entry>>

\* a caller that undoes its change also when the call succeeded
AfterCall_AlwaysUndo(B, f, ok) ==
  Undo(B, edges[f.var][1], edges[f.var][2], f.delta)

\* the board after the recursive call returned ok to a frame f
AfterCall(B, f, ok) ==
  IF ok THEN B ELSE Undo(B, edges[f.var][1], edges[f.var][2], f.delta)

\* a caller that starts its loop over after a failed call
BtResume_Retry ==
  /\ pc = "solving" /\ ret.set /\ stack # <<>> /\ Top.st = "wait"
  /\ LET B == AfterCall(Board, Top, ret.ok)
     IN /\ bridges' = B.bridges
        /\ occupied_segments' = B.occupied_segments
  /\ IF ret.ok
     THEN /\ ret' = Returned(TRUE, Top, ret.leaf)
          /\ stack' = Pop
     ELSE /\ ret' = NoRet
          /\ stack' = SetTop([Top EXCEPT !.st = "loop", !.delta = 0,
                                         !.vals = SortedDesc(Top.doms[Top.var])])
  /\ UNCHANGED <<topology, msg, pc, use_mrv, result, solve_entry>>

\* backtrack: the recursive call returns to its caller
BtResume ==
  /\ pc = "solving" /\ ret.set /\ stack # <<>> /\ Top.st = "wait"
  /\ LET B == AfterCall(Board, Top, ret.ok)
     IN /\ bridges' = B.bridges
        /\ occupied_segments' = B.occupied_segments
  /\ IF ret.ok
     THEN /\ ret' = Returned(TRUE, Top, ret.leaf)
          /\ stack' = Pop
     ELSE /\ ret' = NoRet
          /\ stack' = SetTop([Top EXCEPT !.st = "loop", !.delta = 0])
  /\ UNCHANGED <<topology, msg, pc, use_mrv, result, solve_entry>>

\* solve_csp returns what the outermost backtrack returned
SolveReturn ==
  /\ pc = "solving" /\ ret.set /\ stack = <<>>
  /\ pc' = "done"
  /\ result' = ret.ok
  /\ ret' = NoRet
  /\ UNCHANGED <<topology, bridges, occupied_segments, msg, use_mrv, stack,
                 solve_entry>>

Next ==
  \/ \E a \in Cells, b \in Cells, k \in 0..MaxK : AddBridge(a, b, k)
  \/ \E a \in Cells, b \in Cells, k \in 0..MaxK : RemoveBridge(a, b, k)
  \/ \E mrv \in BOOLEAN : Solve(mrv)
  \/ BtEnter
  \/ BtTry
  \/ BtExhausted
  \/ BtResume
  \/ SolveReturn

Spec == Init /\ [][Next]_vars

(***************************************************************************)
(* Loading as a step: from a text to a Board or to an error                *)
(***************************************************************************)
LoadInit ==
  /\ lines \in Inputs
  /\ load = NotLoaded
  /\ grid = <<>>
  /\ islands = <<>>
  /\ is_island = <<>>
  /\ visible_neighbors = <<>>
  /\ edges = <<>>
  /\ incident = <<>>
  /\ bridges = <<>>
  /\ occupied_segments = {}
  /\ msg = NoMsg
  /\ pc = "start"
  /\ use_mrv = TRUE
  /\ stack = <<>>
  /\ ret = NoRet
  /\ result = FALSE
  /\ solve_entry = EmptyBoard

\* load_board: parse_from_lines, then Board.__init__ when the text is valid
Load ==
  /\ pc = "start"
  /\ load' = parse_from_lines(lines)
  /\ IF load'.ok
     THEN /\ grid' = IntGrid(load'.grid)
          /\ islands' = BuildIslands'
          /\ is_island' = BuildIsIsland'
          /\ visible_neighbors' = _precompute_visible_neighbors'
          /\ edges' = (_build_edges.edges)'
          /\ incident' = (_build_edges.incident)'
          /\ bridges' = <<>>
          /\ occupied_segments' = {}
          /\ pc' = "idle"
     ELSE /\ UNCHANGED <<grid, islands, is_island, visible_neighbors, edges,
                         incident, bridges, occupied_segments>>
          /\ pc' = "rejected"
  /\ UNCHANGED <<lines, msg, use_mrv, stack, ret, result, solve_entry>>

LoadNext == Load

LoadSpec == LoadInit /\ [][LoadNext]_vars

TypeOK ==
  /\ grid \in Boards
  /\ pc \in {"idle", "solving", "done"}
  /\ result \in BOOLEAN
  /\ use_mrv \in BOOLEAN

(***************************************************************************)
(* The rules of the puzzle, stated on the grid                             *)
(***************************************************************************)
\* the cells strictly between the two islands of a pair
Between(key) ==
  { c \in Cells : \E a \in key, b \in key :
       \/ a[1] = b[1] /\ c[1] = a[1] /\ a[2] < c[2] /\ c[2] < b[2]
       \/ a[2] = b[2] /\ c[2] = a[2] /\ a[1] < c[1] /\ c[1] < b[1] }

SameRow(key) == \A a \in key, b \in key : a[1] = b[1]

\* a horizontal and a vertical pair of the set pass through the same cell
CrossingIn(keys) ==
  \E h \in keys, v \in keys :
     SameRow(h) /\ ~SameRow(v) /\ Between(h) \cap Between(v) # {}

Active(B) == { key \in DOMAIN B.bridges : B.bridges[key].k > 0 }

\* the pairs of mutually visible islands
VisiblePairs ==
  { key \in { {p, q} : p \in DOMAIN is_island, q \in DOMAIN is_island } :
      \E p \in key, d \in {"U", "D", "L", "R"} :
         visible_neighbors[p][d] # None /\ key = {p, visible_neighbors[p][d]} }

RECURSIVE SumF(_, _)
SumF(f, keys) ==
  IF keys = {} THEN 0
  ELSE LET key == CHOOSE x \in keys : TRUE IN f[key] + SumF(f, keys \ {key})

\* every island has exactly its number of links under the assignment f
CountsMet(f) ==
  \A p \in DOMAIN is_island :
     SumF(f, { key \in DOMAIN f : p \in key }) = is_island[p]

\* the islands reachable from the set S over the pairs of keys
RECURSIVE Closure(_, _)
Closure(S, keys) ==
  LET T == S \cup { q \in DOMAIN is_island : \E p \in S : {p, q} \in keys }
  IN IF T = S THEN S ELSE Closure(T, keys)

OneComponent(keys) ==
  \A p \in DOMAIN is_island : Closure({p}, keys) = DOMAIN is_island

Used(f) == { key \in DOMAIN f : f[key] > 0 }

\* f is a solution of the puzzle
ValidSolution(f) ==
  CountsMet(f) /\ OneComponent(Used(f)) /\ ~CrossingIn(Used(f))

HasValidSolution == \E f \in [VisiblePairs -> 0..2] : ValidSolution(f)

\* the multiplicity of a pair on the board B
Mult(B, key) == IF key \in DOMAIN B.bridges THEN B.bridges[key].k ELSE 0

\* the bridges of B can be kept or raised to a board that passes full_check
HasCompletion(B) ==
  \E f \in [VisiblePairs -> 0..2] :
     /\ \A key \in VisiblePairs : f[key] >= Mult(B, key)
     /\ CountsMet(f)
     /\ OneComponent(Used(f))

Fresh == solve_entry = EmptyBoard

(***************************************************************************)
(* Claims                                                                  *)
(***************************************************************************)
\* C1: no horizontal and vertical active bridge ever pass through the same
\* non-island cell (the consequence the claim draws from its no-shared-tag
\* statement), in every state reached by add_bridge and remove_bridge calls.
C1_NoCrossing == ~CrossingIn(Active(Board))

\* C2: on the plus-shaped board, once the bridge (1,0)-(1,2) of multiplicity
\* 1 is in place, can_add_bridge((0,1),(2,1),1) fails with the crossing error.
C2_PlusCrossing ==
  (/\ grid = PlusBoard
   /\ DOMAIN bridges = {{<<1, 0>>, <<1, 2>>}}
   /\ bridges[{<<1, 0>>, <<1, 2>>}].k = 1)
  => can_add_bridge(Board, <<0, 1>>, <<2, 1>>, 1).err = "Crossing"

\* C3: when solve_csp, started on a board without bridges, returns True, the
\* board is a solution: every island has its number, the graph is connected,
\* no pair has more than 2 links and no two bridges cross.
C3_SolvedIsValid ==
  (pc = "done" /\ result /\ Fresh)
  => /\ counts_ok(Board)
     /\ is_connected(Board)
     /\ \A key \in DOMAIN bridges : bridges[key].k <= 2
     /\ ~CrossingIn(Active(Board))

\* C4: after any sequence of add_bridge and remove_bridge calls every ledger
\* multiplicity is in {0,1,2}, no island has more links than its number and
\* pending is never negative.
C4_Capacity ==
  /\ \A key \in DOMAIN bridges : bridges[key].k \in {0, 1, 2}
  /\ \A p \in DOMAIN is_island :
        degree(Board, p) <= is_island[p] /\ pending(Board, p) >= 0

C4_Witness ==
  /\ msg.err = "CapacityExceeded"
  /\ \E key \in DOMAIN bridges : bridges[key].k = 2
  /\ \E p \in DOMAIN is_island : pending(Board, p) = 0

\* C5: whenever backtrack, and so solve_csp, returns failure, the ledger and
\* the occupied segments are what they were when that call was entered.
C5_FailureRestores ==
  /\ (ret.set /\ ~ret.ok) => Board = ret.entry
  /\ (pc = "done" /\ ~result) => Board = solve_entry

\* a frame that added bridges returns failure
C5_Witness == ret.set /\ ~ret.ok /\ ret.adds > 0 /\ ret.entry # EmptyBoard

\* C6: True is returned only from the base case with no unassigned edge and
\* a passing full_check; the board the caller sees then has counts_ok and
\* is_connected, no bridge of the solution having been undone.
C6_TrueMeansChecked ==
  /\ (ret.set /\ ret.ok)
       => ret.leaf = {} /\ counts_ok(Board) /\ is_connected(Board)
  /\ (pc = "done" /\ result) => counts_ok(Board) /\ is_connected(Board)

C6_Witness ==
  pc = "done" /\ result /\ Cardinality(DOMAIN bridges) >= 3

\* C7: started on a board without bridges, solve_csp returns True whenever
\* the puzzle has a valid solution, so it returns False only when none exists.
C7_Complete == (pc = "done" /\ Fresh /\ HasValidSolution) => result

C7_Witness ==
  pc = "done" /\ Fresh /\ HasValidSolution /\ result
  /\ \E key \in VisiblePairs : key \notin DOMAIN bridges

\* there are boards without a valid solution, on which False is returned
C7_UnsolvableSeen == pc = "done" /\ Fresh /\ ~HasValidSolution /\ ~result

\* C8: started on any board reached by add_bridge calls, solve_csp returns
\* False only if the bridges present cannot be kept or raised to a board
\* that passes full_check.
C8_SolvesFromCurrent ==
  (pc = "done" /\ ~result) => ~HasCompletion(solve_entry)

\* C9: a successful add_bridge(a,b,k) followed by remove_bridge(a,b,k): the
\* removal succeeds and the ledger and the occupied segments are as before.
C9_AddRemoveInverse ==
  \A a \in Cells, b \in Cells, k \in 0..MaxK :
     add_bridge(Board, a, b, k).res.ok
     => /\ remove_bridge(add_bridge(Board, a, b, k).board, a, b, k).res.ok
        /\ remove_bridge(add_bridge(Board, a, b, k).board, a, b, k).board = Board

\* both cases: a pair that can go from 1 to 2 and a pair without entry
C9_Witness ==
  /\ \E a \in Cells, b \in Cells :
        {a, b} \in DOMAIN bridges /\ add_bridge(Board, a, b, 1).res.ok
  /\ \E a \in Cells, b \in Cells :
        {a, b} \notin DOMAIN bridges /\ add_bridge(Board, a, b, 2).res.ok

\* C10: full_check succeeds exactly when counts_ok and is_connected both hold.
C10_FullCheckIff ==
  full_check(Board).ok <=> (counts_ok(Board) /\ is_connected(Board))

\* the counts are right but the graph is split, and full_check fails
C10_Witness ==
  counts_ok(Board) /\ ~is_connected(Board) /\ ~full_check(Board).ok
  /\ bridges # <<>>

\* C11: a failing add_bridge or remove_bridge leaves the ledger and the
\* occupied segments unchanged, whatever the error; stated for every call a
\* state admits and for every command step that reports an error.
C11_FailureLeavesBoard ==
  /\ [](\A a \in Cells, b \in Cells, k \in 0..MaxK :
          /\ ~add_bridge(Board, a, b, k).res.ok
               => add_bridge(Board, a, b, k).board = Board
          /\ ~remove_bridge(Board, a, b, k).res.ok
               => remove_bridge(Board, a, b, k).board = Board)
  /\ [][(pc = "idle" /\ pc' = "idle" /\ ~msg'.ok)
          => (bridges' = bridges /\ occupied_segments' = occupied_segments)]_vars

\* a command was rejected for crossing on a board that has bridges
C11_Witness == msg.err = "Crossing" /\ Cardinality(DOMAIN bridges) >= 2

\* C12: on the board "11" solve_csp returns True, the ledger holds exactly the
\* pair (0,0)-(0,1) with multiplicity 1, and full_check passes.
C12_PairSolved ==
  (grid = PairBoard /\ pc = "done" /\ Fresh)
  => /\ result
     /\ DOMAIN bridges = {{<<0, 0>>, <<0, 1>>}}
     /\ bridges[{<<0, 0>>, <<0, 1>>}].k = 1
     /\ full_check(Board).ok

C12_Witness == grid = PairBoard /\ pc = "done" /\ Fresh /\ result

\* some island asks for more than twice its number of visible neighbours
NeighbourCount(p) ==
  Cardinality({ d \in {"U", "D", "L", "R"} : visible_neighbors[p][d] # None })
OverConstrained ==
  \E p \in DOMAIN is_island : is_island[p] > 2 * NeighbourCount(p)

\* C13: on an over-constrained board solve_csp returns False and leaves the
\* board as it was; started without bridges it ends in the initial
\* propagation, in one step and before any search.
C13_OverConstrained ==
  /\ (OverConstrained /\ pc = "done") => (~result /\ Board = solve_entry)
  /\ (OverConstrained /\ Fresh) => pc # "solving"

C13_Witness ==
  OverConstrained /\ pc = "done" /\ ~result /\ NeighbourCount(<<0, 0>>) = 1

\* the direction in which b lies from a, for two aligned cells
DirTo(a, b) ==
  IF a[1] = b[1] THEN (IF b[2] > a[2] THEN "R" ELSE "L")
  ELSE (IF b[1] > a[1] THEN "D" ELSE "U")

\* C15: every pair of the ledger is two islands that see each other: same
\* row or column, no island strictly between, and each the recorded
\* neighbour of the other in its direction.
C15_LedgerVisible ==
  \A key \in DOMAIN bridges :
     /\ Cardinality(key) = 2
     /\ key \subseteq DOMAIN is_island
     /\ Between(key) \cap DOMAIN is_island = {}
     /\ \A a \in key, b \in key :
           a # b => /\ a[1] = b[1] \/ a[2] = b[2]
                    /\ visible_neighbors[a][DirTo(a, b)] = b

\* an aligned pair with an island in between was refused while the ledger
\* holds bridges
C15_Witness ==
  /\ msg.err = "NotVisible"
  /\ DOMAIN bridges # {}
  /\ \E a \in DOMAIN is_island, b \in DOMAIN is_island :
        a # b /\ a[1] = b[1] /\ Between({a, b}) \cap DOMAIN is_island # {}

\* the segment of the other orientation with the same tag
Orthogonal(seg) == <<IF seg[1] = H THEN V ELSE H, seg[2], seg[3]>>

\* C16: when the earlier checks pass, can_add_bridge reports a crossing
\* exactly when some segment of the corridor has its orthogonal segment of
\* the same tag occupied.
C16_CrossingIff ==
  \A a \in DOMAIN is_island, b \in DOMAIN is_island, k \in 1..2 :
     (_visible_aligned(a, b) /\ Current(Board, a, b).k + k <= 2)
     => (can_add_bridge(Board, a, b, k).err = "Crossing"
           <=> \E seg \in Range(_path_between(a, b)) :
                  Orthogonal(seg) \in occupied_segments)

\* C17: raising a pair from one link to two is never refused as a crossing,
\* and succeeds when both islands have a link pending.
C17_RaiseIsLegal ==
  \A a \in DOMAIN is_island, b \in DOMAIN is_island :
     ({a, b} \in DOMAIN bridges /\ bridges[{a, b}].k = 1)
     => /\ can_add_bridge(Board, a, b, 1).err # "Crossing"
        /\ (pending(Board, a) >= 1 /\ pending(Board, b) >= 1)
             => add_bridge(Board, a, b, 1).res.ok

\* the segments of the corridor of a pair, from the positions alone
Corridor(key) ==
  { seg \in { <<o, c[1], c[2]>> : o \in {H, V}, c \in Cells } :
      \E a \in key, b \in key :
         \/ seg[1] = H /\ a[1] = b[1] /\ seg[2] = a[1]
              /\ a[2] <= seg[3] /\ seg[3] < b[2]
         \/ seg[1] = V /\ a[2] = b[2] /\ seg[3] = a[2]
              /\ a[1] <= seg[2] /\ seg[2] < b[1] }

\* C18: a successful remove_bridge lowers the pair by exactly k and touches
\* no other entry; at 0 the entry goes and exactly its corridor is freed,
\* otherwise the occupied segments stay.
C18_RemoveFrame ==
  \A a \in Cells, b \in Cells, k \in 0..MaxK :
     LET r == remove_bridge(Board, a, b, k)
         key == {a, b}
     IN r.res.ok =>
          /\ Mult(r.board, key) = Mult(Board, key) - k
          /\ (DOMAIN r.board.bridges) \ {key} = (DOMAIN bridges) \ {key}
          /\ \A other \in (DOMAIN bridges) \ {key} :
                r.board.bridges[other] = bridges[other]
          /\ IF Mult(Board, key) = k
             THEN /\ key \notin DOMAIN r.board.bridges
                  /\ Corridor(key) \subseteq occupied_segments
                  /\ r.board.occupied_segments
                       = occupied_segments \ Corridor(key)
             ELSE /\ key \in DOMAIN r.board.bridges
                  /\ r.board.bridges[key].dir = bridges[key].dir
                  /\ r.board.occupied_segments = occupied_segments

\* a double pair next to another pair: removing 1 keeps the entry, removing
\* 2 deletes it
C18_Witness ==
  /\ Cardinality(DOMAIN bridges) >= 2
  /\ \E a \in Cells, b \in Cells :
        /\ {a, b} \in DOMAIN bridges /\ bridges[{a, b}].k = 2
        /\ remove_bridge(Board, a, b, 1).res.ok
        /\ remove_bridge(Board, a, b, 2).res.ok

\* C19: can_remove_bridge fails when the pair has no entry or fewer than k
\* links, succeeds otherwise for islands and k in 1..2, and does not depend
\* on the order of the endpoints.
C19_CanRemove ==
  \A a \in Cells, b \in Cells, k \in 0..MaxK :
     /\ ({a, b} \notin DOMAIN bridges \/ Mult(Board, {a, b}) < k)
          => ~can_remove_bridge(Board, a, b, k).ok
     /\ (/\ a \in DOMAIN is_island /\ b \in DOMAIN is_island /\ k \in 1..2
         /\ {a, b} \in DOMAIN bridges /\ Mult(Board, {a, b}) >= k)
          => can_remove_bridge(Board, a, b, k).ok
     /\ can_remove_bridge(Board, a, b, k) = can_remove_bridge(Board, b, a, k)

\* a request for more links than the pair holds was refused, while the
\* single link it holds can be taken from either end
C19_Witness ==
  /\ msg.err = "InsufficientBridgesToRemove"
  /\ \E a \in Cells, b \in Cells :
        /\ {a, b} \in DOMAIN bridges /\ bridges[{a, b}].k = 1
        /\ ~can_remove_bridge(Board, a, b, 2).ok
        /\ can_remove_bridge(Board, b, a, 1).ok

\* C20: is_connected holds exactly when every island reaches every other
\* over the pairs with multiplicity > 0, and holds without islands.
C20_Connected ==
  /\ is_connected(Board) <=> OneComponent(Active(Board))
  /\ Len(islands) = 0 => is_connected(Board)

\* three or more islands joined in one component, the start island not
\* adjacent to all
C20_Witness ==
  /\ Len(islands) >= 3
  /\ is_connected(Board)
  /\ \E p \in DOMAIN is_island :
        p # Pos(islands[1]) /\ {p, Pos(islands[1])} \notin DOMAIN bridges

\* the unordered pair of an edge
PairOf(e) == {e[1], e[2]}

\* C21: _build_edges lists every pair of mutually visible islands exactly
\* once and no other pair, its index holds for each island exactly the
\* edges that touch it, and the result does not depend on the bridges on
\* the board: computed in any state it is what it was on the empty board.
C21_BuildEdges ==
  LET be == _build_edges
  IN /\ { PairOf(be.edges[i]) : i \in DOMAIN be.edges } = VisiblePairs
     /\ \A i \in DOMAIN be.edges, j \in DOMAIN be.edges :
           i # j => PairOf(be.edges[i]) # PairOf(be.edges[j])
     /\ DOMAIN be.incident = DOMAIN is_island
     /\ \A p \in DOMAIN is_island :
           /\ Range(be.incident[p])
                = { i \in DOMAIN be.edges : p \in PairOf(be.edges[i]) }
           /\ Len(be.incident[p]) = Cardinality(Range(be.incident[p]))
     /\ be.edges = edges
     /\ be.incident = incident

\* a board that carries bridges, with three or more edges and an island
\* that is the second endpoint of two of them
C21_Witness ==
  /\ DOMAIN bridges # {}
  /\ Len(edges) >= 3
  /\ \E p \in DOMAIN is_island :
        Cardinality({ i \in DOMAIN edges : edges[i][2] = p }) >= 2

\* the digits in order: the digit d is Digits[d + 1]
Digits == <<"0", "1", "2", "3", "4", "5", "6", "7", "8", "9">>
DigitOf(ch) == (CHOOSE i \in DOMAIN Digits : Digits[i] = ch) - 1
\* a numeral: digits, after an optional minus sign
IsNumeral(s) ==
  \/ s # <<>> /\ \A i \in DOMAIN s : s[i] \in Range(Digits)
  \/ Len(s) >= 2 /\ s[1] = "-" /\ \A i \in 2..Len(s) : s[i] \in Range(Digits)
RECURSIVE Pow10(_)
Pow10(n) == IF n = 0 THEN 1 ELSE 10 * Pow10(n - 1)
RECURSIVE PlaceSum(_, _)
PlaceSum(s, i) ==
  IF i > Len(s) THEN 0
  ELSE (IF s[i] = "-" THEN 0 ELSE DigitOf(s[i]) * Pow10(Len(s) - i))
       + PlaceSum(s, i + 1)
NumeralValue(s) == IF s[1] = "-" THEN 0 - PlaceSum(s, 1) ELSE PlaceSum(s, 1)

\* the header is "numeral,numeral"
Commas(h) == { i \in DOMAIN h : h[i] = "," }
HeaderReadable(h) ==
  /\ Cardinality(Commas(h)) = 1
  /\ \E i \in Commas(h) :
        IsNumeral(SubSeq(h, 1, i - 1)) /\ IsNumeral(SubSeq(h, i + 1, Len(h)))
HeaderRows(h) ==
  NumeralValue(SubSeq(h, 1, (CHOOSE i \in Commas(h) : TRUE) - 1))
HeaderCols(h) ==
  NumeralValue(SubSeq(h, (CHOOSE i \in Commas(h) : TRUE) + 1, Len(h)))

\* the text is malformed in one of the listed ways
Malformed(ls) ==
  \/ ls = <<>>
  \/ ~HeaderReadable(ls[1])
  \/ Len(ls) - 1 # HeaderRows(ls[1])
  \/ \E r \in 2..Len(ls) : Len(ls[r]) # HeaderCols(ls[1])
  \/ \E r \in 2..Len(ls) : \E c \in DOMAIN ls[r] :
        ls[r][c] \notin { Digits[d] : d \in 1..9 }

Unbuilt ==
  /\ grid = <<>> /\ islands = <<>> /\ is_island = <<>>
  /\ visible_neighbors = <<>> /\ bridges = <<>> /\ occupied_segments = {}

\* C22: loading rejects every malformed text and builds no board; a
\* well-formed text gives the board whose islands are the cells other than
\* '0' with their digit, with empty ledger and no occupied segment.
C22_LoadValidates ==
  pc # "start" =>
    IF Malformed(lines)
    THEN ~load.ok /\ pc = "rejected" /\ Unbuilt
    ELSE /\ load.ok /\ pc = "idle"
         /\ Range(islands)
              = { <<r - 2, c - 1, DigitOf(lines[r][c])>> :
                    r \in 2..Len(lines), c \in 1..HeaderCols(lines[1]) }
                \ { <<r - 2, c - 1, 0>> :
                    r \in 2..Len(lines), c \in 1..HeaderCols(lines[1]) }
         /\ Len(islands) = Cardinality(Range(islands))
         /\ DOMAIN is_island = { Pos(t) : t \in Range(islands) }
         /\ \A t \in Range(islands) : is_island[Pos(t)] = t[3]
         /\ bridges = <<>>
         /\ occupied_segments = {}

\* a text with a readable header and rows of the right number and width was
\* rejected for a character above '8'
C22_Witness ==
  /\ pc = "rejected"
  /\ load.err = "InvalidChar"
  /\ Len(lines) = 2
  /\ "9" \in Range(lines[2])
  /\ "8" \in Range(lines[2])

\* C23: a header whose row count or column count is zero or negative is
\* rejected and no board is built.
C23_PositiveHeader ==
  (/\ pc # "start" /\ lines # <<>> /\ HeaderReadable(lines[1])
   /\ (HeaderRows(lines[1]) <= 0 \/ HeaderCols(lines[1]) <= 0))
  => (~load.ok /\ pc = "rejected")

\* C24: every candidate value of a frame is tried against the board the
\* frame was entered with: whenever the value loop is at the start of an
\* iteration (or at its end), the ledger and the occupied segments are those
\* of the frame's entry.
C24_CandidatesSeeEntry ==
  (pc = "solving" /\ ~ret.set /\ stack # <<>> /\ Top.st = "loop")
  => Board = Top.entry

\* a frame is back at its loop after a recursive call that followed an
\* add_bridge failed, with a candidate still to try
C24_Witness ==
  /\ pc = "solving" /\ ~ret.set /\ stack # <<>>
  /\ Top.st = "loop" /\ Top.adds >= 1 /\ Top.vals # <<>>

\* the unassigned edges that touch the island p
FreeAt(p, unassigned) == { i \in unassigned : p \in PairOf(edges[i]) }
\* the sum of g over the set S of edges
RECURSIVE SumOver(_, _)
SumOver(g, S) ==
  IF S = {} THEN 0
  ELSE LET e == CHOOSE x \in S : TRUE IN g[e] + SumOver(g, S \ {e})

\* the domains are at a fixed point of the rules of propagate on the board B
FixedPoint(B, doms, unassigned) ==
  \A p \in DOMAIN is_island :
     LET left == is_island[p] - degree(B, p)
         U == FreeAt(p, unassigned)
         lo == SumOver([e \in U |-> MinSet(doms[e])], U)
         hi == SumOver([e \in U |-> MaxSet(doms[e])], U)
     IN /\ left >= 0
        /\ U = {} => left = 0
        /\ U # {} =>
             /\ \A e \in U : doms[e] # {}
             /\ lo <= left /\ left <= hi
             /\ left = 0 => \A e \in U : doms[e] = {0}
             /\ left = 2 * Cardinality(U) => \A e \in U : doms[e] = {2}
             /\ (left = 1 /\ Cardinality(U) = 1) => \A e \in U : doms[e] = {1}

AllEdges == 1..Len(edges)
FullDomains == [i \in AllEdges |-> {0, 1, 2}]

\* C25: when propagate returns success the domains are at a fixed point of
\* its rules against the live board: for the initial call of solve_csp on
\* the current board, and for the call behind every frame of the search.
C25_PropagateFixedPoint ==
  /\ pc = "idle" =>
       LET prop == propagate(Board, FullDomains, AllEdges)
       IN prop.ok => FixedPoint(Board, prop.doms, AllEdges)
  /\ pc = "solving" =>
       \A i \in DOMAIN stack :
          FixedPoint(stack[i].entry, stack[i].doms, stack[i].unassigned)

\* propagation succeeded for a board with bridges after more than one pass,
\* and a frame of the search holds an edge that is still open
C25_Witness ==
  /\ pc = "solving" /\ DOMAIN solve_entry.bridges # {}
  /\ PropPass(solve_entry, FullDomains, AllEdges, 1, FALSE).changed
  /\ \E i \in DOMAIN stack : \E e \in stack[i].unassigned :
        Cardinality(stack[i].doms[e]) = 3

\* g gives every island exactly its number on top of the bridges of B
Completes(B, unassigned, g) ==
  \A p \in DOMAIN is_island :
     degree(B, p) + SumOver(g, FreeAt(p, unassigned)) = is_island[p]

\* propagate keeps every completion that the domains allow
Sound(B, doms, unassigned) ==
  \A g \in [unassigned -> 0..2] :
     ((\A e \in unassigned : g[e] \in doms[e]) /\ Completes(B, unassigned, g))
     => /\ propagate(B, doms, unassigned).ok
        /\ \A e \in unassigned : g[e] \in propagate(B, doms, unassigned).doms[e]

\* C26: in a solve started on a board without bridges propagation is sound,
\* at the initial call and at the call for every candidate value: a choice
\* of values from the domains that completes every island is never lost.
C26_PropagateSound ==
  /\ (pc = "idle" /\ Board = EmptyBoard) => Sound(Board, FullDomains, AllEdges)
  /\ (/\ pc = "solving" /\ Fresh /\ ~ret.set /\ stack # <<>>
      /\ Top.st = "loop" /\ Top.vals # <<>>) =>
       LET var == Top.var
           val == Head(Top.vals)
           a == edges[var][1]
           b == edges[var][2]
           delta == val - KCurrent(Board, a, b)
           added == IF delta > 0 THEN add_bridge(Board, a, b, delta)
                    ELSE [res |-> Ok, board |-> Board]
       IN (delta >= 0 /\ added.res.ok) =>
            Sound(added.board,
                  [Top.doms EXCEPT ![var] = {val}], Top.unassigned \ {var})

\* a candidate is about to be propagated with two or more edges open, one of
\* them with all three values, and a completion exists
C26_Witness ==
  /\ pc = "solving" /\ Fresh /\ ~ret.set /\ stack # <<>>
  /\ Top.st = "loop" /\ Top.vals # <<>> /\ Head(Top.vals) > 0
  /\ Cardinality(Top.unassigned) >= 3
  /\ \E e \in Top.unassigned \ {Top.var} : Cardinality(Top.doms[e]) = 3
  /\ add_bridge(Board, edges[Top.var][1], edges[Top.var][2], Head(Top.vals)).res.ok
  /\ \E g \in [Top.unassigned \ {Top.var} -> 0..2] :
        /\ \A e \in DOMAIN g : g[e] \in Top.doms[e]
        /\ Completes(add_bridge(Board, edges[Top.var][1], edges[Top.var][2],
                                Head(Top.vals)).board,
                     Top.unassigned \ {Top.var}, g)

\* the frame at depth i has chosen its edge
Chosen(i) == stack[i].st \in {"loop", "wait"}

\* C27: the edge a frame chooses is unassigned, with MRV it has a domain of
\* minimum size among the unassigned edges, and no ancestor frame chose it.
C27_MrvChoice ==
  pc = "solving" =>
    \A i \in DOMAIN stack :
       Chosen(i) =>
         /\ stack[i].var \in stack[i].unassigned
         /\ use_mrv =>
              \A j \in stack[i].unassigned :
                 Cardinality(stack[i].doms[stack[i].var])
                   <= Cardinality(stack[i].doms[j])
         /\ \A m \in 1..(i - 1) :
               /\ stack[m].var # stack[i].var
               /\ stack[m].var \notin stack[i].unassigned

\* with MRV a frame below the root chose an edge with a single value while
\* another unassigned edge has all three
C27_Witness ==
  /\ pc = "solving" /\ use_mrv /\ Len(stack) >= 2
  /\ Chosen(Len(stack))
  /\ Cardinality(Top.doms[Top.var]) = 1
  /\ \E j \in Top.unassigned : Cardinality(Top.doms[j]) = 3

\* the values still to try are in descending order, belong to the domain,
\* and every value of the domain that is no longer among them is larger
DescendingRest(f) ==
  /\ \A m \in DOMAIN f.vals, n \in DOMAIN f.vals : m < n => f.vals[m] > f.vals[n]
  /\ Range(f.vals) \subseteq f.doms[f.var]
  /\ \A v \in f.doms[f.var] \ Range(f.vals), w \in Range(f.vals) : v > w

\* C28: a frame tries the values of its edge in strictly descending order,
\* each at most once: the loop starts with the whole domain, a step takes the
\* first of the values left or leaves them alone, and what is left is always
\* below everything tried.  A frame moves on to its next value only after the
\* branch of the current one returned False, and once a branch returned True
\* every frame returns with the board as it is: the solution returned is the
\* first one in that depth-first order.
C28_DescendingOnce ==
  /\ [](pc = "solving" => \A i \in DOMAIN stack : Chosen(i) => DescendingRest(stack[i]))
  /\ [][(pc = "solving" /\ pc' = "solving") =>
          \A i \in (DOMAIN stack) \cap (DOMAIN stack') :
             IF Chosen(i)
             THEN /\ stack'[i].var = stack[i].var
                  /\ \/ stack'[i].vals = stack[i].vals
                     \/ /\ stack[i].vals # <<>>
                        /\ stack'[i].vals = Tail(stack[i].vals)
             ELSE (stack'[i].st = "loop")
                    => Range(stack'[i].vals) = stack'[i].doms[stack'[i].var]]_vars
  /\ [][(pc = "solving" /\ pc' = "solving") =>
          /\ \A i \in (DOMAIN stack) \cap (DOMAIN stack') :
                (stack[i].st = "wait" /\ stack'[i].st = "loop")
                   => (ret.set /\ ~ret.ok)
          /\ (ret.set /\ ret.ok) =>
                /\ bridges' = bridges
                /\ ret'.set /\ ret'.ok
                /\ Len(stack') < Len(stack)]_vars

\* the largest value of a domain of three was tried and the next is due
C28_Witness ==
  /\ pc = "solving" /\ ~ret.set /\ stack # <<>> /\ Top.st = "loop"
  /\ Top.doms[Top.var] = {0, 1, 2}
  /\ Top.vals = <<1, 0>>

\* C29: during solve_csp no pair has fewer links than when solve_csp was
\* called, and the value a frame gives its edge is the multiplicity the pair
\* has from then on, never below the one it had before.
C29_NeverBelowEntry ==
  pc \in {"solving", "done"} =>
    /\ \A key \in DOMAIN solve_entry.bridges :
          Mult(Board, key) >= solve_entry.bridges[key].k
    /\ \A i \in 2..Len(stack) :
          LET key == PairOf(edges[stack[i - 1].var])
          IN /\ stack[i].doms[stack[i - 1].var] = {Mult(stack[i].entry, key)}
             /\ Mult(stack[i].entry, key) >= Mult(stack[i - 1].entry, key)
             /\ Mult(Board, key) >= Mult(stack[i].entry, key)

\* a search two frames deep on a board that carried bridges at the call
C29_Witness ==
  /\ pc = "solving" /\ Len(stack) >= 2
  /\ DOMAIN solve_entry.bridges # {}
  /\ DOMAIN bridges # DOMAIN solve_entry.bridges

\* C30: the domains and the unassigned set of a frame are its own: no step
\* of the search, in the frame or in a branch below it, changes them.
C30_BranchLocal ==
  [][(pc = "solving" /\ pc' = "solving") =>
       \A i \in (DOMAIN stack) \cap (DOMAIN stack') :
          /\ stack'[i].doms = stack[i].doms
          /\ stack'[i].unassigned = stack[i].unassigned]_vars

\* a frame is back at its loop after a failed branch, with an edge whose
\* domain is still whole and a candidate left
C30_Witness ==
  /\ pc = "solving" /\ ~ret.set /\ stack # <<>> /\ Top.st = "loop"
  /\ Top.vals # <<>>
  /\ Len(Top.vals) < Cardinality(Top.doms[Top.var])
  /\ \E e \in Top.unassigned \ {Top.var} : Cardinality(Top.doms[e]) = 3

\* what is left for the frame at depth i to do: 8 before it chose its edge,
\* then two units for each value still to try, one more while a call is
\* pending; 0 where the stack has no frame
FrameRank(st, i) ==
  IF i > Len(st) THEN 0
  ELSE IF st[i].st = "enter" THEN 8
  ELSE IF st[i].st = "loop" THEN 2 * Len(st[i].vals) + 1
  ELSE 2 * Len(st[i].vals) + 2

RECURSIVE Pow9(_)
Pow9(n) == IF n = 0 THEN 1 ELSE 9 * Pow9(n - 1)

\* the frames read as a numeral in base 9, the root first, and the pending
\* return of solve_csp as the last unit
Rank(p, st) ==
  (IF p = "solving" THEN 1 ELSE 0)
    + 2 * SumF([i \in 1..(Len(edges) + 1) |->
                  FrameRank(st, i) * Pow9(Len(edges) + 1 - i)],
               1..(Len(edges) + 1))

\* the candidate the frame on top is about to try is refused by add_bridge
RejectedAdd ==
  /\ pc = "solving" /\ ~ret.set /\ stack # <<>> /\ Top.st = "loop"
  /\ Top.vals # <<>>
  /\ LET a == edges[Top.var][1]
         b == edges[Top.var][2]
         delta == Head(Top.vals) - KCurrent(Board, a, b)
     IN delta > 0 /\ ~can_add_bridge(Board, a, b, delta).ok

\* the guard of one of the steps of the search holds: a frame to enter, a
\* loop to run or to leave, a return to take, or the return of solve_csp
CanStep ==
  IF ret.set
  THEN stack = <<>> \/ Top.st = "wait"
  ELSE stack # <<>> /\ Top.st \in {"enter", "loop"}

\* C31: solve_csp terminates with True or False.  While it runs some step is
\* always possible and every step lowers a rank in the naturals; a call has
\* exactly the unassigned edges of its caller but the caller's edge, so there
\* are never more frames than edges plus one; a candidate that add_bridge
\* refuses leaves the frame in its loop with the board as it was.
C31_Terminates ==
  /\ [](pc = "solving" =>
          /\ CanStep
          /\ Len(stack) <= Len(edges) + 1
          /\ \A i \in 2..Len(stack) :
                /\ stack[i - 1].var \in stack[i - 1].unassigned
                /\ stack[i].unassigned
                     = stack[i - 1].unassigned \ {stack[i - 1].var})
  /\ [](pc = "done" => (result \in BOOLEAN /\ stack = <<>>))
  /\ [][(pc = "solving") => Rank(pc', stack') < Rank(pc, stack)]_vars
  /\ [][RejectedAdd =>
          /\ pc' = "solving" /\ ~ret'.set
          /\ Len(stack') = Len(stack) /\ Top'.st = "loop"
          /\ Top'.vals = Tail(Top.vals)
          /\ bridges' = bridges
          /\ occupied_segments' = occupied_segments]_vars

\* the recursion is as deep as it can be on a board of three edges or more
C31_Witness ==
  /\ pc = "solving"
  /\ Len(edges) >= 3
  /\ Len(stack) = Len(edges) + 1

\* a candidate of the search is about to be refused by add_bridge
C31_Refusal == RejectedAdd

\* C32: a successful add_bridge(a, b, k) raises the pair by exactly k, with
\* the orientation of the positions, occupies the corridor between a and b
\* and no other segment, and leaves every other entry of the ledger alone.
C32_AddFrame ==
  \A a \in Cells, b \in Cells, k \in 0..MaxK :
     LET r == add_bridge(Board, a, b, k)
         key == {a, b}
     IN r.res.ok =>
          /\ Mult(r.board, key) = Mult(Board, key) + k
          /\ DOMAIN r.board.bridges = (DOMAIN bridges) \cup {key}
          /\ r.board.bridges[key].dir = (IF a[1] = b[1] THEN H ELSE V)
          /\ \A other \in (DOMAIN bridges) \ {key} :
                r.board.bridges[other] = bridges[other]
          /\ r.board.occupied_segments = occupied_segments \cup Corridor(key)

\* a ledger with a double bridge over a corridor of two segments, and a
\* further pair that add_bridge accepts
C32_Witness ==
  /\ pc = "idle"
  /\ \E key \in DOMAIN bridges :
        /\ bridges[key].k = 2
        /\ Cardinality(Corridor(key)) >= 2
        /\ \E a \in DOMAIN is_island, b \in DOMAIN is_island :
              /\ {a, b} \notin DOMAIN bridges
              /\ add_bridge(Board, a, b, 1).res.ok

\* C33: the occupied segments are exactly the corridors of the pairs in the
\* ledger, in every state of the board, during a solve as well.
C33_SegmentsAreCorridors ==
  occupied_segments = UNION { Corridor(key) : key \in DOMAIN bridges }

\* a call of the search returned False after adding and removing bridges of
\* its own, while bridges of its callers are still on the board
C33_Witness ==
  /\ pc = "solving" /\ ret.set /\ ~ret.ok
  /\ ret.adds >= 1
  /\ DOMAIN bridges # {}
  /\ DOMAIN bridges # DOMAIN solve_entry.bridges

\* every entry of the ledger led joins two islands with 1 or 2 links and its
\* orientation is H exactly on a shared row and V exactly on a shared column
LedgerShape(led) ==
  \A key \in DOMAIN led :
     /\ led[key].k \in {1, 2}
     /\ \E a \in key, b \in key :
           /\ a # b /\ key = {a, b}
           /\ (led[key].dir = H) <=> (a[1] = b[1])
           /\ (led[key].dir = V) <=> (a[2] = b[2])

\* C34: in every reachable state each ledger entry has multiplicity 1 or 2
\* and the orientation of its positions; whatever add_bridge or
\* remove_bridge is called with, the ledger it leaves has that shape too, so
\* an entry that reaches 0 is not stored.
C34_LedgerShape ==
  /\ LedgerShape(bridges)
  /\ \A a \in Cells, b \in Cells, k \in 0..MaxK :
        /\ LedgerShape(add_bridge(Board, a, b, k).board.bridges)
        /\ LedgerShape(remove_bridge(Board, a, b, k).board.bridges)

\* a vertical single bridge beside a horizontal double one that
\* remove_bridge can take away whole
C34_Witness ==
  /\ pc = "idle"
  /\ \E v \in DOMAIN bridges : bridges[v].dir = V /\ bridges[v].k = 1
  /\ \E a \in DOMAIN is_island, b \in DOMAIN is_island :
        /\ {a, b} \in DOMAIN bridges
        /\ bridges[{a, b}].dir = H /\ bridges[{a, b}].k = 2
        /\ remove_bridge(Board, a, b, 2).res.ok

\* the islands that lie from a in the direction d, on its row or column
Ahead(a, d) ==
  { q \in DOMAIN is_island :
      \/ d = "U" /\ q[2] = a[2] /\ q[1] < a[1]
      \/ d = "D" /\ q[2] = a[2] /\ q[1] > a[1]
      \/ d = "L" /\ q[1] = a[1] /\ q[2] < a[2]
      \/ d = "R" /\ q[1] = a[1] /\ q[2] > a[2] }

\* the distance of two cells of one row or column
Dist(a, q) ==
  MaxOf(a[1], q[1]) - MinOf(a[1], q[1]) + MaxOf(a[2], q[2]) - MinOf(a[2], q[2])

\* C35: for every island and direction the recorded neighbour is the nearest
\* island ahead, none if no island lies ahead, and b is the neighbour of a
\* to the right (below) exactly when a is the neighbour of b to the left
\* (above).
C35_NearestVisible ==
  /\ DOMAIN visible_neighbors = DOMAIN is_island
  /\ \A a \in DOMAIN is_island, d \in {"U", "D", "L", "R"} :
        IF Ahead(a, d) = {}
        THEN visible_neighbors[a][d] = None
        ELSE /\ visible_neighbors[a][d] \in Ahead(a, d)
             /\ \A q \in Ahead(a, d) :
                   Dist(a, visible_neighbors[a][d]) <= Dist(a, q)
  /\ \A a \in DOMAIN is_island, b \in DOMAIN is_island :
        /\ (visible_neighbors[a]["R"] = b) <=> (visible_neighbors[b]["L"] = a)
        /\ (visible_neighbors[a]["D"] = b) <=> (visible_neighbors[b]["U"] = a)

\* an island sees its neighbour across a free cell and a further island
\* lies behind that neighbour
C35_Witness ==
  \E a \in DOMAIN is_island :
     LET b == visible_neighbors[a]["R"]
     IN /\ b # None
        /\ b[2] - a[2] >= 2
        /\ Ahead(b, "R") # {}
        /\ visible_neighbors[a]["U"] = None

\* C36: where a pair has no link, add_bridge(a, b, 2) succeeds exactly when
\* add_bridge(a, b, 1) twice succeeds, and both ways leave the same ledger
\* and the same occupied segments.
C36_SplitAdd ==
  \A a \in Cells, b \in Cells :
     Mult(Board, {a, b}) = 0 =>
        LET whole == add_bridge(Board, a, b, 2)
            first == add_bridge(Board, a, b, 1)
            second == add_bridge(first.board, a, b, 1)
        IN /\ whole.res.ok <=> (first.res.ok /\ second.res.ok)
           /\ whole.res.ok => second.board = whole.board

\* C37: the bridge operations do not depend on the order of the endpoints:
\* can_add_bridge and can_remove_bridge give the same success or the same
\* kind of failure for (a, b) and (b, a), and add_bridge leaves the same
\* ledger and occupied segments.
C37_EndpointOrder ==
  \A a \in Cells, b \in Cells, k \in 0..MaxK :
     /\ can_add_bridge(Board, a, b, k).ok = can_add_bridge(Board, b, a, k).ok
     /\ can_add_bridge(Board, a, b, k).err = can_add_bridge(Board, b, a, k).err
     /\ can_remove_bridge(Board, a, b, k).ok = can_remove_bridge(Board, b, a, k).ok
     /\ can_remove_bridge(Board, a, b, k).err
          = can_remove_bridge(Board, b, a, k).err
     /\ add_bridge(Board, a, b, k).board = add_bridge(Board, b, a, k).board

\* a ledger on which one pair is refused for the capacity of the same island
\* in both orders, and another pair can be raised and lowered in both
C37_Witness ==
  /\ \E a \in DOMAIN is_island, b \in DOMAIN is_island :
        /\ can_add_bridge(Board, a, b, 1).err = "CapacityExceeded"
        /\ can_add_bridge(Board, a, b, 1).at = b
        /\ can_add_bridge(Board, b, a, 1).at = b
  /\ \E c \in DOMAIN is_island, d \in DOMAIN is_island :
        /\ c[1] < d[1] \/ c[2] < d[2]
        /\ can_remove_bridge(Board, d, c, 1).ok
        /\ add_bridge(Board, d, c, 1).res.ok

\* b is the nearest island ahead of a in some direction
Sees(a, b) ==
  \E d \in {"U", "D", "L", "R"} :
     /\ b \in Ahead(a, d)
     /\ \A q \in Ahead(a, d) : Dist(a, b) <= Dist(a, q)

\* the links at the island a, from the ledger
LinksAt(a) == SumF([key \in DOMAIN bridges |-> bridges[key].k],
                   { key \in DOMAIN bridges : a \in key })

\* the board's crossing test on the corridor of a and b: a segment of it is
\* occupied together with the segment of the other orientation at its cell
TagsCollide(a, b) ==
  \E seg \in Corridor({a, b}) :
     seg \in occupied_segments /\ Orthogonal(seg) \in occupied_segments

\* the first rule, in the order of can_add_bridge, that the request breaks
FirstViolated(a, b, k) ==
  IF a \notin DOMAIN is_island \/ b \notin DOMAIN is_island
  THEN Err("NotAnIsland")
  ELSE IF k \notin {1, 2} THEN Err("InvalidMultiplicity")
  ELSE IF ~Sees(a, b) THEN Err("NotVisible")
  ELSE IF Mult(Board, {a, b}) + k > 2 THEN Err("MultiplicityExceeded")
  ELSE IF TagsCollide(a, b) THEN Err("Crossing")
  ELSE IF LinksAt(a) + k > is_island[a] THEN ErrAt("CapacityExceeded", a)
  ELSE IF LinksAt(b) + k > is_island[b] THEN ErrAt("CapacityExceeded", b)
  ELSE Ok

DomainShape(d) == d \in {{0, 1, 2}, {0}, {1}, {2}}

\* every domain of new is a whole or single-valued, non-empty part of the
\* domain old has for the edge
Narrowed(new, old) ==
  /\ DOMAIN new = DOMAIN old
  /\ \A e \in DOMAIN old :
        new[e] # {} /\ new[e] \subseteq old[e] /\ DomainShape(new[e])

\* C39: throughout a solve every domain is {0,1,2} or a single value and
\* only ever shrinks to a non-empty part of what it was: at the initial
\* propagation, from a frame to the frame it calls, and at the pin and the
\* propagation of every candidate, failed ones included; as the domains
\* returned on failure are those at the failing test, no test ever met an
\* empty domain.
C39_DomainsShrink ==
  /\ pc = "idle" =>
        Narrowed(propagate(Board, FullDomains, AllEdges).doms, FullDomains)
  /\ pc = "solving" =>
        /\ stack # <<>> => Narrowed(stack[1].doms, FullDomains)
        /\ \A i \in 2..Len(stack) : Narrowed(stack[i].doms, stack[i - 1].doms)
  /\ (/\ pc = "solving" /\ ~ret.set /\ stack # <<>>
      /\ Top.st = "loop" /\ Top.vals # <<>>) =>
       LET var == Top.var
           val == Head(Top.vals)
           a == edges[var][1]
           b == edges[var][2]
           delta == val - KCurrent(Board, a, b)
           added == IF delta > 0 THEN add_bridge(Board, a, b, delta)
                    ELSE [res |-> Ok, board |-> Board]
           pinned == [Top.doms EXCEPT ![var] = {val}]
       IN (delta >= 0 /\ added.res.ok) =>
            /\ Narrowed(pinned, Top.doms)
            /\ Narrowed(propagate(added.board, pinned,
                                  Top.unassigned \ {var}).doms, pinned)

\* a candidate whose propagation fails after it narrowed a domain
C39_Witness ==
  /\ pc = "solving" /\ ~ret.set /\ stack # <<>>
  /\ Top.st = "loop" /\ Top.vals # <<>>
  /\ LET var == Top.var
         val == Head(Top.vals)
         a == edges[var][1]
         b == edges[var][2]
         delta == val - KCurrent(Board, a, b)
         added == IF delta > 0 THEN add_bridge(Board, a, b, delta)
                  ELSE [res |-> Ok, board |-> Board]
         pinned == [Top.doms EXCEPT ![var] = {val}]
         prop == propagate(added.board, pinned, Top.unassigned \ {var})
     IN /\ delta >= 0 /\ added.res.ok
        /\ ~prop.ok
        /\ prop.doms # pinned

====
